---- MODULE Spec2Model ----
(***************************************************************************)
(* A model of src/dict_utilities.py: helper functions over nested Python   *)
(* structures (getpath, whitelist_dict, safe_mask_values,                  *)
(* recursive_primitive, find_key_in_dict / key_in_dict, push_keys).        *)
(*                                                                         *)
(* Python values are tagged tuples, the tag first, so that values of       *)
(* different kinds can be compared:                                        *)
(*   <<"none">>            None                                            *)
(*   <<"int", n>>          an integer                                      *)
(*   <<"float", "inf">>    float("inf")                                    *)
(*   <<"str", cs>>         a text string, cs its characters                *)
(*   <<"bytes", cs>>       a byte string                                   *)
(*   <<"list", vs>>        a list, vs the sequence of its items            *)
(*   <<"tuple", vs>>       a tuple                                         *)
(*   <<"dict", f>>         a dict, f a function from keys to values        *)
(*   <<"bunch", f>>        a Bunch object, f its __dict__                  *)
(*   <<"method", k, n>>    the bound method n of a builtin of kind k       *)
(*   <<"object">>          an instance of an unrelated class               *)
(*   <<"ref", a>>          (heap cells only) the container at address a    *)
(***************************************************************************)
EXTENDS Integers, Sequences, FiniteSets, TLC

VARIABLES
    pc,         \* where the running call stands; "idle" between calls
    obj,        \* getpath: the object reached so far
    keys,       \* getpath: the tokens parse_path has still to yield
    default,    \* getpath: the default argument
    ret,        \* the value the finished call returned
    exc,        \* the exception that left the finished call, "" when none
    call,       \* the arguments of the running call
    trace,      \* getpath: what the loop did so far (history)
    prev,       \* getpath: the outcome of the preceding call on the same S, D
    heap,       \* the dicts and lists that exist, by address
    locals      \* the local variables of the running call (not getpath's)

vars == <<pc, obj, keys, default, ret, exc, call, trace, prev, heap, locals>>

(***************************************************************************)
(* Bounds of the model.                                                    *)
(***************************************************************************)
MaxPathLen == 2      \* tokens in a path
MaxItems == 2        \* items in a generated list or tuple
MaxBlockSteps == 2   \* statements the body of a "with push_keys(...)" block runs

(***************************************************************************)
(* Python values.                                                          *)
(***************************************************************************)
None == <<"none">>
PyInt(n) == <<"int", n>>
PyInf == <<"float", "inf">>
PyStr(cs) == <<"str", cs>>
PyBytes(cs) == <<"bytes", cs>>
PyList(vs) == <<"list", vs>>
PyTuple(vs) == <<"tuple", vs>>
PyDict(f) == <<"dict", f>>
PyBunch(f) == <<"bunch", f>>
PyMethod(k, n) == <<"method", k, n>>
PyObject == <<"object">>
EmptyMap == [k \in {} |-> None]

Kind(v) == v[1]

\* The outcome of an expression: a value, or an exception by its class name.
Ok(v) == <<"ok", v>>
Raise(e) == <<"exc", e>>
IsOk(r) == r[1] = "ok"

\* bool(v): None, 0, empty strings and empty containers are falsy.
Truthy(v) ==
    CASE Kind(v) = "none" -> FALSE
      [] Kind(v) = "int" -> v[2] # 0
      [] Kind(v) \in {"str", "bytes", "list", "tuple"} -> v[2] # <<>>
      [] Kind(v) = "dict" -> DOMAIN v[2] # {}
      [] OTHER -> TRUE

\* hash(v) succeeds: lists and dicts are unhashable.
Hashable(v) == Kind(v) \notin {"list", "dict"}

(***************************************************************************)
(* Path parsing: PATH_DELIMITERS, _split_and_trim, parse_path.             *)
(***************************************************************************)
PATH_DELIMITERS == {",", ".", "[", "]"}

\* re.split(pattern, string): the pieces between delimiters, empty ones kept.
RECURSIVE re_split(_, _, _)
re_split(delimiters, cs, piece) ==
    IF cs = <<>> THEN <<piece>>
    ELSE IF Head(cs) \in delimiters
         THEN <<piece>> \o re_split(delimiters, Tail(cs), <<>>)
         ELSE re_split(delimiters, Tail(cs), Append(piece, Head(cs)))

\* filter(None, pieces): the empty pieces are dropped.
filter_None(pieces) == SelectSeq(pieces, LAMBDA p : p # <<>>)

split_without_trim(string, delimiters) ==
    re_split(delimiters, string, <<>>)

_split_and_trim(string, delimiters) ==
    filter_None(re_split(delimiters, string, <<>>))

\* The body of parse_path's loop over the items of path.
RECURSIVE parse_items(_)
parse_items(items) ==
    IF items = <<>> THEN <<>>
    ELSE LET key == Head(items)
             sp == _split_and_trim(key[2], PATH_DELIMITERS)
         IN  (IF Kind(key) = "str"
              THEN [i \in 1..Len(sp) |-> PyStr(sp[i])]
              ELSE <<key>>) \o parse_items(Tail(items))

\* parse_path(path), run to its end: the tokens it yields, or the TypeError of
\* iterating a path that is not iterable.
parse_path(path) ==
    CASE Kind(path) = "str" ->
            LET sp == _split_and_trim(path[2], PATH_DELIMITERS)
            IN  Ok(parse_items([i \in 1..Len(sp) |-> PyStr(sp[i])]))
      [] Kind(path) \in {"list", "tuple"} -> Ok(parse_items(path[2]))
      [] OTHER -> Raise("TypeError")

(***************************************************************************)
(* The three accessors getpath tries, and int().                           *)
(***************************************************************************)
\* The attributes every instance of a builtin kind has (a few of them).
BuiltinAttrs(kind) ==
    CASE kind = "dict" -> {<<"g", "e", "t">>, <<"p", "o", "p">>}
      [] kind = "list" -> {<<"p", "o", "p">>}
      [] OTHER -> {}

\* getattr(o, key)
getattr(o, key) ==
    IF Kind(key) # "str" THEN Raise("TypeError")
    ELSE IF Kind(o) = "bunch" /\ key \in DOMAIN o[2] THEN Ok(o[2][key])
    ELSE IF key[2] \in BuiltinAttrs(Kind(o)) THEN Ok(PyMethod(Kind(o), key[2]))
    ELSE Raise("AttributeError")

\* o[key]
getitem(o, key) ==
    CASE Kind(o) = "dict" ->
            IF ~Hashable(key) THEN Raise("TypeError")
            ELSE IF key \in DOMAIN o[2] THEN Ok(o[2][key])
            ELSE Raise("KeyError")
      [] Kind(o) \in {"list", "tuple", "str"} ->
            IF Kind(key) # "int" THEN Raise("TypeError")
            ELSE LET n == Len(o[2])
                     i == IF key[2] < 0 THEN key[2] + n ELSE key[2]
                     item == o[2][i + 1]
                 IN  IF i < 0 \/ i >= n THEN Raise("IndexError")
                     ELSE IF Kind(o) = "str" THEN Ok(PyStr(<<item>>))
                     ELSE Ok(item)
      [] OTHER -> Raise("TypeError")

Digits == {"0", "1", "2", "3", "4", "5", "6", "7", "8", "9"}

DigitValue(c) ==
    CASE c = "0" -> 0 [] c = "1" -> 1 [] c = "2" -> 2 [] c = "3" -> 3
      [] c = "4" -> 4 [] c = "5" -> 5 [] c = "6" -> 6 [] c = "7" -> 7
      [] c = "8" -> 8 [] c = "9" -> 9

RECURSIVE atoi(_, _)
atoi(cs, acc) ==
    IF cs = <<>> THEN acc ELSE atoi(Tail(cs), 10 * acc + DigitValue(Head(cs)))

IsDigits(cs) == cs # <<>> /\ \A i \in 1..Len(cs) : cs[i] \in Digits

\* int(key): an int is itself, a string is parsed (sign, then digits), an
\* infinite float overflows, anything else is a TypeError.
int(key) ==
    CASE Kind(key) = "int" -> Ok(key)
      [] Kind(key) = "str" ->
            LET cs == key[2]
                signed == cs # <<>> /\ Head(cs) \in {"-", "+"}
                body == IF signed THEN Tail(cs) ELSE cs
            IN  IF ~IsDigits(body) THEN Raise("ValueError")
                ELSE IF signed /\ Head(cs) = "-" THEN Ok(PyInt(0 - atoi(body, 0)))
                ELSE Ok(PyInt(atoi(body, 0)))
      [] Kind(key) = "float" -> Raise("OverflowError")
      [] OTHER -> Raise("TypeError")

\* The inner try of getpath's loop body: attribute, then item, then item by
\* int(key).
Lookup(o, key) ==
    LET a == getattr(o, key)
    IN  IF IsOk(a) \/ a[2] \notin {"AttributeError", "TypeError"} THEN a
        ELSE LET g == getitem(o, key)
             IN  IF IsOk(g) \/ g[2] # "TypeError" THEN g
                 ELSE LET n == int(key)
                      IN  IF IsOk(n) THEN getitem(o, n[2]) ELSE n

\* The exceptions the outer except clause of the loop body catches.
CaughtWithoutValueError ==
    {"KeyError", "IndexError", "TypeError", "AttributeError"}

Caught == {"KeyError", "IndexError", "TypeError", "AttributeError", "ValueError"}

\* "if obj is None: break"
NeverBreaks(o) == FALSE

BreaksOn(o) == o = None

(***************************************************************************)
(* Objects with identity.  A dict or a list lives in the heap at an        *)
(* address; a cell (a dict value, a list or tuple item, a variable) holds  *)
(* a scalar, a tuple of cells, or <<"ref", a>>.  Tuples are immutable and  *)
(* are held by value.  Structures are trees (no cycles, no sharing).       *)
(***************************************************************************)
Ref(a) == <<"ref", a>>
PyBool(b) == <<"bool", b>>
EmptyHeap == [a \in {} |-> None]

HeapMax(h) ==
    IF DOMAIN h = {} THEN 0
    ELSE CHOOSE m \in DOMAIN h : \A a \in DOMAIN h : a <= m

Children(o) ==
    IF Kind(o) = "dict" THEN { o[2][k] : k \in DOMAIN o[2] }
    ELSE { o[2][i] : i \in 1..Len(o[2]) }

\* The addresses of the containers reachable from a cell.
RECURSIVE Refs(_, _)
Refs(h, c) ==
    CASE Kind(c) = "ref" -> {c[2]} \cup UNION { Refs(h, x) : x \in Children(h[c[2]]) }
      [] Kind(c) = "tuple" -> UNION { Refs(h, c[2][i]) : i \in 1..Len(c[2]) }
      [] OTHER -> {}

\* The value a cell compares equal to (Python's ==, which looks through
\* identity).
RECURSIVE Value(_, _)
Value(h, c) ==
    CASE Kind(c) = "ref" ->
            LET o == h[c[2]]
            IN  IF Kind(o) = "dict"
                THEN PyDict([k \in DOMAIN o[2] |-> Value(h, o[2][k])])
                ELSE PyList([i \in 1..Len(o[2]) |-> Value(h, o[2][i])])
      [] Kind(c) = "tuple" -> PyTuple([i \in 1..Len(c[2]) |-> Value(h, c[2][i])])
      [] OTHER -> c

\* bool(c) of a cell.
TruthyCell(h, c) == IF Kind(c) = "ref" THEN Truthy(h[c[2]]) ELSE Truthy(c)

\* A cell, and a container, with every address moved by off: the new
\* containers a copy allocates stand at the old addresses plus off.
RECURSIVE Shift(_, _)
Shift(c, off) ==
    CASE Kind(c) = "ref" -> Ref(c[2] + off)
      [] Kind(c) = "tuple" -> PyTuple([i \in 1..Len(c[2]) |-> Shift(c[2][i], off)])
      [] OTHER -> c

ShiftObj(o, off) ==
    IF Kind(o) = "dict" THEN PyDict([k \in DOMAIN o[2] |-> Shift(o[2][k], off)])
    ELSE PyList([i \in 1..Len(o[2]) |-> Shift(o[2][i], off)])

\* copy.deepcopy(c): every reachable dict and list is allocated anew.
deepcopy(h, c) ==
    LET off == HeapMax(h)
        new == { a + off : a \in Refs(h, c) }
    IN  [heap |-> [a \in DOMAIN h \cup new |->
                      IF a \in DOMAIN h THEN h[a] ELSE ShiftObj(h[a - off], off)],
         val |-> Shift(c, off)]

(***************************************************************************)
(* whitelist_dict(data, white_list, copy_data)                             *)
(***************************************************************************)
REDACTED == PyStr(<<"R", "E", "D", "A", "C", "T", "E", "D">>)

\* "field not in white_list and white_listed_data[field]"
RedactsFalsyToo(h, white_list, field, value) == field \notin white_list

Redacts(h, white_list, field, value) ==
    field \notin white_list /\ TruthyCell(h, value)

(***************************************************************************)
(* _recursive_mask_values(obj, *pii_keys) and safe_mask_values             *)
(***************************************************************************)
X == PyStr(<<"X">>)

\* "key in pii_keys and val"
MasksFalsyToo(h, pii_keys, key, val) == key \in pii_keys

Masks(h, pii_keys, key, val) == key \in pii_keys /\ TruthyCell(h, val)

\* The containers the recursion visits: all but those under a masked key.
RECURSIVE Visited(_, _, _)
Visited(h, c, pii_keys) ==
    CASE Kind(c) = "ref" ->
            LET o == h[c[2]]
                into == IF Kind(o) = "dict"
                        THEN { o[2][k] : k \in { k \in DOMAIN o[2] :
                                                   ~Masks(h, pii_keys, k, o[2][k]) } }
                        ELSE { o[2][i] : i \in 1..Len(o[2]) }
            IN  {c[2]} \cup UNION { Visited(h, x, pii_keys) : x \in into }
      [] Kind(c) = "tuple" ->
            UNION { Visited(h, c[2][i], pii_keys) : i \in 1..Len(c[2]) }
      [] OTHER -> {}

\* The dict comprehension, the list comprehension: a new container each.
MaskedObj(h, o, off, pii_keys) ==
    IF Kind(o) = "dict"
    THEN PyDict([key \in DOMAIN o[2] |->
                    IF Masks(h, pii_keys, key, o[2][key]) THEN X
                    ELSE Shift(o[2][key], off)])
    ELSE PyList([i \in 1..Len(o[2]) |-> Shift(o[2][i], off)])

\* _recursive_mask_values(obj, *pii_keys): a new dict for every dict visited,
\* a new list for every list, a new tuple for every tuple; any other value is
\* returned as it is.
_recursive_mask_values(h, c, pii_keys) ==
    LET off == HeapMax(h)
        new == { a + off : a \in Visited(h, c, pii_keys) }
    IN  [heap |-> [a \in DOMAIN h \cup new |->
                      IF a \in DOMAIN h THEN h[a]
                      ELSE MaskedObj(h, h[a - off], off, pii_keys)],
         val |-> Shift(c, off)]

(***************************************************************************)
(* push_keys(mapping, **kwargs)                                            *)
(***************************************************************************)
\* missing = object()
missing == <<"missing">>

\* backup = {k: mapping.get(k, missing) for k in kwargs}
Backup(m, kwargs) ==
    [k \in DOMAIN kwargs |-> IF k \in DOMAIN m THEN m[k] ELSE missing]

\* mapping.update(other)
Update(m, other) ==
    [k \in DOMAIN m \cup DOMAIN other |-> IF k \in DOMAIN other THEN other[k] ELSE m[k]]

\* The code after the yield: mapping.update(backup), then del mapping[k] for
\* every k whose backup is missing.
Restore(m, backup) ==
    LET u == Update(m, backup)
    IN  [k \in { k \in DOMAIN u : ~(k \in DOMAIN backup /\ backup[k] = missing) } |-> u[k]]

(***************************************************************************)
(* recursive_primitive(i)  (Python 3: six.PY2 is false)                    *)
(***************************************************************************)
\* The kinds of the first isinstance test: string_types, integer_types, bool,
\* float, NoneType, datetime.date, uuid.UUID.
PrimitiveKindsWithoutStr == {"int", "bool", "float", "none", "date", "uuid"}

PrimitiveKinds == {"str", "int", "bool", "float", "none", "date", "uuid"}

\* isinstance(i, collections.Iterable), for the kinds that are not mappings.
IterableKinds == {"list", "tuple", "str", "bytes"}

RECURSIVE recursive_primitive(_)
recursive_primitive(i) ==
    IF Kind(i) \in PrimitiveKinds THEN Ok(i)
    ELSE IF Kind(i) = "bytes" THEN Ok(PyStr(i[2]))
    ELSE IF Kind(i) = "dict" THEN
        LET rs == [k \in DOMAIN i[2] |-> recursive_primitive(i[2][k])]
        IN  IF \E k \in DOMAIN rs : ~IsOk(rs[k])
            THEN rs[CHOOSE k \in DOMAIN rs : ~IsOk(rs[k])]
            ELSE Ok(PyDict([k \in DOMAIN rs |-> rs[k][2]]))
    ELSE IF Kind(i) \in IterableKinds THEN
        \* A string iterates into one-character strings, each of which iterates
        \* into itself: the recursion never ends.
        IF Kind(i) = "str" /\ i[2] # <<>> THEN Raise("RecursionError")
        ELSE LET items == IF Kind(i) = "str" THEN <<>> ELSE i[2]
                 rs == [j \in 1..Len(items) |-> recursive_primitive(items[j])]
             IN  IF \E j \in 1..Len(rs) : ~IsOk(rs[j])
                 THEN rs[CHOOSE j \in 1..Len(rs) :
                            ~IsOk(rs[j]) /\ \A l \in 1..(j - 1) : IsOk(rs[l])]
                 ELSE Ok(PyList([j \in 1..Len(rs) |-> rs[j][2]]))
    ELSE Raise("TypeError")

(***************************************************************************)
(* find_key_in_dict(node, key) and key_in_dict(node, key)                  *)
(***************************************************************************)
\* A set as a sequence, in some fixed order (the order a dict iterates in).
RECURSIVE SetToSeq(_)
SetToSeq(S) ==
    IF S = {} THEN <<>>
    ELSE LET x == CHOOSE x \in S : TRUE IN <<x>> \o SetToSeq(S \ {x})

\* Only the node's own keys are looked at.
find_key_without_recursion(node, key) ==
    IF Kind(node) = "dict" /\ key \in DOMAIN node[2] THEN <<key>> ELSE <<>>

\* The keys find_key_in_dict(node, key) yields, in order.  The loops
\* "for key in find_key_in_dict(item, key): yield key" rebind key to each
\* value yielded: Each(items, key, out) runs such a loop over items.
RECURSIVE find_key_in_dict(_, _), Each(_, _, _)
find_key_in_dict(node, key) ==
    IF Kind(node) = "list" THEN Each(node[2], key, <<>>)
    ELSE IF Kind(node) = "dict" THEN
        Each([i \in 1..Cardinality(DOMAIN node[2]) |->
                  node[2][SetToSeq(DOMAIN node[2])[i]]],
             key,
             IF key \in DOMAIN node[2] THEN <<key>> ELSE <<>>)
    ELSE <<>>

Each(items, key, out) ==
    IF items = <<>> THEN out
    ELSE LET ys == find_key_in_dict(Head(items), key)
         IN  Each(Tail(items), IF ys = <<>> THEN key ELSE ys[Len(ys)], out \o ys)

\* "True if key in find_key_in_dict(node, key) else False"
key_in_dict(node, key) ==
    LET ys == find_key_in_dict(node, key)
    IN  \E i \in 1..Len(ys) : ys[i] = key

(***************************************************************************)
(* The inputs the calls are drawn from.                                    *)
(***************************************************************************)
Ka == PyStr(<<"a">>)
Kb == PyStr(<<"b">>)
Kget == PyStr(<<"g", "e", "t">>)
Kzero == PyStr(<<"0">>)

\* Nested structures in the shapes of getpath's doctests.
Structures ==
    { PyDict(Ka :> PyDict(Kb :> PyInt(7))),
      PyDict(Ka :> PyList(<<PyInt(5), PyDict(Kb :> PyInt(7))>>)),
      PyList(<<PyInt(5), PyDict(Ka :> PyList(<<PyInt(6), PyInt(7)>>))>>),
      PyDict((Ka :> None) @@ (Kb :> PyInt(7))),
      PyDict(Ka :> PyDict(PyInt(0) :> PyInt(7))),
      PyDict(Ka :> PyDict(Kzero :> PyInt(7))),
      PyDict((Kget :> PyInt(7)) @@ (Ka :> PyInt(5))),
      PyBunch(Ka :> PyDict(Kb :> PyInt(7))),
      PyStr(<<"a", "b">>),
      PyInt(5),
      None }

Defaults == { None, PyInt(9), PyDict((Kb :> PyInt(8)) @@ (PyInt(0) :> PyInt(6))) }

\* Tokens a delimited string can spell: names, and indexes written as integers.
PlainTokens == { Ka, Kb, Kget, PyInt(0), PyInt(1) }

\* Tokens only a sequence path can hold.
OddTokens == { None, PyList(<<>>), PyInf, Kzero, PyStr(<<"a", ".", "b">>) }

RECURSIVE SeqsUpTo(_, _)
SeqsUpTo(S, n) ==
    IF n = 0 THEN { <<>> }
    ELSE LET shorter == SeqsUpTo(S, n - 1)
         IN  shorter \cup { Append(s, x) : s \in shorter, x \in S }

DigitChar(d) ==
    CASE d = 0 -> "0" [] d = 1 -> "1" [] d = 2 -> "2" [] d = 3 -> "3"
      [] d = 4 -> "4" [] d = 5 -> "5" [] d = 6 -> "6" [] d = 7 -> "7"
      [] d = 8 -> "8" [] d = 9 -> "9"

\* str(n) for n >= 0.
RECURSIVE itoa(_)
itoa(n) == IF n < 10 THEN <<DigitChar(n)>>
           ELSE itoa(n \div 10) \o <<DigitChar(n % 10)>>

\* The delimited string that spells the tokens: "a.b.0" (dotted) or
\* "a.b[0]" (bracket).
RECURSIVE Render(_, _, _)
Render(toks, form, first) ==
    IF toks = <<>> THEN <<>>
    ELSE LET t == Head(toks)
             piece == IF Kind(t) = "int"
                      THEN IF form = "bracket" THEN <<"[">> \o itoa(t[2]) \o <<"]">>
                           ELSE (IF first THEN <<>> ELSE <<".">>) \o itoa(t[2])
                      ELSE (IF first THEN <<>> ELSE <<".">>) \o t[2]
         IN  piece \o Render(Tail(toks), form, FALSE)

RawStrings == { <<>>, <<".", ".">>, <<"a", ",", "b">>, <<"[", "1", "]", ".", "a", ".", "[", "0", "]">> }

PathInputs ==
    { [form |-> "seq", toks |-> q, path |-> PyList(q)] :
          q \in SeqsUpTo(PlainTokens \cup OddTokens, MaxPathLen) }
    \cup { [form |-> f, toks |-> q, path |-> PyStr(Render(q, f, TRUE))] :
          f \in {"dotted", "bracket"}, q \in SeqsUpTo(PlainTokens, MaxPathLen) }
    \cup { [form |-> "raw", toks |-> <<>>, path |-> PyStr(cs)] : cs \in RawStrings }
    \cup { [form |-> "scalar", toks |-> <<>>, path |-> p] : p \in {None, PyInt(5)} }

Kssn == PyStr(<<"s", "s", "n">>)
Kdob == PyStr(<<"d", "o", "b">>)
Kname == PyStr(<<"n", "a", "m", "e">>)
Bob == PyStr(<<"B", "o", "b">>)
S123 == PyStr(<<"1", "2", "3">>)

\* whitelist_dict: single-layer mappings, allow-lists.
WhitelistData ==
    { (Kssn :> S123) @@ (Kname :> Bob),
      (Kssn :> PyStr(<<>>)) @@ (Kdob :> PyInt(0)) @@ (Kname :> Bob) @@ (Ka :> None),
      (Kssn :> PyInt(5)),
      EmptyMap }

WhiteLists == { {}, {Kname}, {Kssn, Kname}, {Kb} }

\* safe_mask_values: nested structures, as a heap and the cell of the root.
MaskInputs ==
    { \* {'a': {'ssn': '123'}}
      [heap |-> <<PyDict(Ka :> Ref(2)), PyDict(Kssn :> S123)>>, root |-> Ref(1)],
      \* {'a': [{'name': 'Bob', 'ssn': '123'}, {'name': 'Bob', 'ssn': ''}]}
      [heap |-> <<PyDict(Ka :> Ref(2)), PyList(<<Ref(3), Ref(4)>>),
                  PyDict((Kname :> Bob) @@ (Kssn :> S123)),
                  PyDict((Kname :> Bob) @@ (Kssn :> PyStr(<<>>)))>>, root |-> Ref(1)],
      \* ({'ssn': 0, 'dob': {'a': 1}}, [{'ssn': None}], 5)
      [heap |-> <<PyDict((Kssn :> PyInt(0)) @@ (Kdob :> Ref(2))), PyDict(Ka :> PyInt(1)),
                  PyList(<<Ref(4)>>), PyDict(Kssn :> None)>>,
       root |-> PyTuple(<<Ref(1), Ref(3), PyInt(5)>>)],
      \* {'ssn': {}, 'dob': [], 'name': 'Bob'}
      [heap |-> <<PyDict((Kssn :> Ref(2)) @@ (Kdob :> Ref(3)) @@ (Kname :> Bob)),
                  PyDict(EmptyMap), PyList(<<>>)>>, root |-> Ref(1)],
      \* [{'name': ('Bob', {'ssn': '123'})}]
      [heap |-> <<PyList(<<Ref(2)>>), PyDict(Kname :> PyTuple(<<Bob, Ref(3)>>)),
                  PyDict(Kssn :> S123)>>, root |-> Ref(1)],
      \* '123'
      [heap |-> EmptyHeap, root |-> S123] }

PiiKeySets == { {}, {Kssn}, {Kssn, Kdob}, {Kname, Ka} }

\* push_keys: mappings, overrides, and what the block may do.
PushMappings ==
    { EmptyMap, (Ka :> PyInt(1)), (Kb :> PyInt(2)), (Ka :> PyInt(1)) @@ (Kb :> PyInt(2)) }

PushOverrides ==
    { (Ka :> PyInt(5)), (Kb :> PyInt(6)), (Ka :> PyInt(5)) @@ (Kb :> PyInt(6)) }

BlockKeys == { Ka, Kb }
BlockValues == { PyInt(3) }

\* recursive_primitive: scalars, and containers of them two levels deep.
PrimitiveAtoms ==
    { Ka, PyInt(1), PyBool(TRUE), None, <<"date", 1>>, PyBytes(<<"x">>), PyObject }

Containers(vals, n) ==
    { PyList(s) : s \in SeqsUpTo(vals, n) } \cup { PyTuple(s) : s \in SeqsUpTo(vals, n) }
    \cup { PyDict(Ka :> v) : v \in vals }

PrimitiveShallow == PrimitiveAtoms \cup Containers(PrimitiveAtoms, MaxItems)

PrimitiveInputs ==
    PrimitiveShallow \cup Containers(PrimitiveShallow, 1)
    \cup { PyDict(PyBytes(<<"x">>) :> PyTuple(<<PyBytes(<<"x">>)>>)),
           PyStr(<<>>), PyBytes(<<>>) }

\* find_key_in_dict: nodes two levels deep, and a few deeper ones.
Leaves == { PyInt(1), None }

DictsOver(vals) ==
    UNION { { PyDict(f) : f \in [D -> vals] } : D \in SUBSET {Ka, Kb} }

NodesShallow ==
    Leaves \cup DictsOver(Leaves) \cup { PyList(s) : s \in SeqsUpTo(Leaves, MaxItems) }

Nodes ==
    NodesShallow \cup DictsOver(NodesShallow)
    \cup { PyList(s) : s \in SeqsUpTo(NodesShallow, MaxItems) }
    \cup { PyList(<<PyList(<<PyList(<<PyDict(Kb :> None)>>)>>)>>),
           PyDict(Ka :> PyList(<<PyDict(Ka :> PyDict(PyInt(0) :> PyInt(1)))>>)),
           PyTuple(<<PyDict(Ka :> PyInt(1))>>),
           PyDict(Kb :> PyTuple(<<PyDict(Ka :> PyInt(1))>>)),
           Ka }

FindKeys == { Ka, Kb, PyInt(0) }

NoCall == [fn |-> "none"]
NoTrace == [failed |-> FALSE, afterFail |-> 0, nulled |-> FALSE, ambig |-> FALSE,
            caught |-> {}]
NoPrev == [set |-> FALSE]
NoLocals == [fn |-> "none"]

\* A numeric token meets a mapping (or object) that has that number as a key,
\* as an integer or as a digit string.
Ambiguous(o, key) ==
    /\ Kind(o) \in {"dict", "bunch"}
    /\ \/ Kind(key) = "int" /\ key[2] >= 0
       \/ Kind(key) = "str" /\ IsDigits(key[2])
    /\ LET n == IF Kind(key) = "int" THEN key[2] ELSE atoi(key[2], 0)
       IN  PyInt(n) \in DOMAIN o[2] \/ PyStr(itoa(n)) \in DOMAIN o[2]

(***************************************************************************)
(* getpath(obj, path, default)                                             *)
(***************************************************************************)
Init ==
    /\ pc = "idle"
    /\ obj = None
    /\ keys = <<>>
    /\ default = None
    /\ ret = None
    /\ exc = ""
    /\ call = NoCall
    /\ trace = NoTrace
    /\ prev = NoPrev
    /\ heap = EmptyHeap
    /\ locals = NoLocals

\* The call, up to the first iteration of "for key in parse_path(path)".
StartGetpath(S, p, D) ==
    LET parsed == parse_path(p.path)
    IN  /\ call' = [fn |-> "getpath", S |-> S, D |-> D, form |-> p.form,
                    toks |-> p.toks, path |-> p.path]
        /\ obj' = S
        /\ default' = D
        /\ trace' = NoTrace
        /\ ret' = None
        /\ IF IsOk(parsed)
           THEN keys' = parsed[2] /\ exc' = "" /\ pc' = "getpath_loop"
           ELSE keys' = <<>> /\ exc' = parsed[2] /\ pc' = "raised"

CallGetpath ==
    /\ pc = "idle"
    /\ \E S \in Structures, D \in Defaults, p \in PathInputs : StartGetpath(S, p, D)
    /\ prev' = NoPrev
    /\ UNCHANGED <<heap, locals>>

\* One iteration of the loop body.
GetpathIterate ==
    /\ pc = "getpath_loop"
    /\ keys # <<>>
    /\ LET key == Head(keys)
           r == Lookup(obj, key)
           o2 == IF IsOk(r) THEN r[2] ELSE default
       IN  IF ~IsOk(r) /\ r[2] \notin Caught
           THEN /\ pc' = "raised"
                /\ exc' = r[2]
                /\ UNCHANGED <<obj, keys, trace>>
           ELSE /\ obj' = o2
                /\ keys' = Tail(keys)
                /\ pc' = IF BreaksOn(o2) THEN "getpath_return" ELSE "getpath_loop"
                /\ trace' = [failed |-> trace.failed \/ ~IsOk(r),
                             afterFail |-> trace.afterFail + (IF trace.failed THEN 1 ELSE 0),
                             nulled |-> trace.nulled \/ (IsOk(r) /\ r[2] = None),
                             ambig |-> trace.ambig \/ Ambiguous(obj, key),
                             caught |-> trace.caught \cup
                                        (IF IsOk(r) THEN {} ELSE {r[2]})]
                /\ UNCHANGED exc
    /\ UNCHANGED <<default, ret, call, prev, heap, locals>>

\* "return obj", after the break or when parse_path is exhausted.
GetpathReturn ==
    /\ \/ pc = "getpath_return"
       \/ pc = "getpath_loop" /\ keys = <<>>
    /\ pc' = "getpath_done"
    /\ ret' = obj
    /\ UNCHANGED <<obj, keys, default, exc, call, trace, prev, heap, locals>>

\* The caller, having passed a delimited string, calls again with the
\* pre-split sequence of the same tokens on the same structure and default.
CallGetpathPreSplit ==
    /\ pc \in {"getpath_done", "raised"}
    /\ call.fn = "getpath"
    /\ call.form \in {"dotted", "bracket"}
    /\ prev' = [set |-> TRUE, ret |-> ret, exc |-> exc, ambig |-> trace.ambig,
                path |-> call.path]
    /\ StartGetpath(call.S, [form |-> "seq", toks |-> call.toks,
                             path |-> PyList(call.toks)], call.D)
    /\ UNCHANGED <<heap, locals>>

(***************************************************************************)
(* whitelist_dict                                                          *)
(***************************************************************************)
getpathVars == <<obj, keys, default, trace, prev>>

CallWhitelistDict ==
    /\ pc = "idle"
    /\ \E data \in WhitelistData, white_list \in WhiteLists, copy_data \in BOOLEAN :
          /\ call' = [fn |-> "whitelist_dict", data |-> data,
                      white_list |-> white_list, copy_data |-> copy_data]
          /\ heap' = <<PyDict(data)>>
    /\ pc' = "whitelist_copy"
    /\ UNCHANGED <<ret, exc, locals, getpathVars>>

\* white_listed_data = copy.deepcopy(data) if copy_data else data
WhitelistCopy ==
    /\ pc = "whitelist_copy"
    /\ LET copied == deepcopy(heap, Ref(1))
           target == IF call.copy_data THEN copied.val ELSE Ref(1)
       IN  /\ heap' = IF call.copy_data THEN copied.heap ELSE heap
           /\ locals' = [fn |-> "whitelist_dict", white_listed_data |-> target,
                         fields |-> DOMAIN heap[1][2]]
    /\ pc' = "whitelist_loop"
    /\ UNCHANGED <<ret, exc, call, getpathVars>>

\* One iteration of "for field in white_listed_data".
WhitelistField ==
    /\ pc = "whitelist_loop"
    /\ \E field \in locals.fields :
          LET a == locals.white_listed_data[2]
              d == heap[a][2]
          IN  /\ heap' = IF Redacts(heap, call.white_list, field, d[field])
                         THEN [heap EXCEPT ![a] = PyDict([d EXCEPT ![field] = REDACTED])]
                         ELSE heap
              /\ locals' = [locals EXCEPT !.fields = @ \ {field}]
    /\ UNCHANGED <<pc, ret, exc, call, getpathVars>>

\* return white_listed_data
WhitelistReturn ==
    /\ pc = "whitelist_loop"
    /\ locals.fields = {}
    /\ ret' = locals.white_listed_data
    /\ pc' = "whitelist_done"
    /\ UNCHANGED <<exc, call, heap, locals, getpathVars>>

(***************************************************************************)
(* safe_mask_values                                                        *)
(***************************************************************************)
CallSafeMaskValues ==
    /\ pc = "idle"
    /\ \E in \in MaskInputs, pii_keys \in PiiKeySets :
          /\ call' = [fn |-> "safe_mask_values", data |-> in.root, heap |-> in.heap,
                      pii_keys |-> pii_keys]
          /\ heap' = in.heap
    /\ pc' = "mask_copy"
    /\ UNCHANGED <<ret, exc, locals, getpathVars>>

\* obj = copy.deepcopy(data)
SafeMaskCopy ==
    /\ pc = "mask_copy"
    /\ LET copied == deepcopy(heap, call.data)
       IN  /\ heap' = copied.heap
           /\ locals' = [fn |-> "safe_mask_values", obj |-> copied.val]
    /\ pc' = "mask_walk"
    /\ UNCHANGED <<ret, exc, call, getpathVars>>

\* return _recursive_mask_values(obj, *pii_keys)
SafeMaskReturn ==
    /\ pc = "mask_walk"
    /\ LET masked == _recursive_mask_values(heap, locals.obj, call.pii_keys)
       IN  /\ heap' = masked.heap
           /\ ret' = masked.val
    /\ pc' = "mask_done"
    /\ UNCHANGED <<exc, call, locals, getpathVars>>

(***************************************************************************)
(* push_keys, and the block it scopes                                      *)
(***************************************************************************)
\* "with push_keys(mapping, **kwargs):" up to the yield.
CallPushKeys ==
    /\ pc = "idle"
    /\ \E mapping \in PushMappings, kwargs \in PushOverrides :
          /\ call' = [fn |-> "push_keys", mapping |-> mapping, kwargs |-> kwargs]
          /\ locals' = [fn |-> "push_keys", backup |-> Backup(mapping, kwargs),
                        steps |-> 0, left |-> EmptyMap]
          /\ heap' = <<PyDict(Update(mapping, kwargs))>>
    /\ pc' = "push_block"
    /\ UNCHANGED <<ret, exc, getpathVars>>

\* The block assigns a key of the mapping.
BlockAssign ==
    /\ pc = "push_block"
    /\ locals.steps < MaxBlockSteps
    /\ \E k \in BlockKeys, v \in BlockValues :
          heap' = <<PyDict(Update(heap[1][2], k :> v))>>
    /\ locals' = [locals EXCEPT !.steps = @ + 1]
    /\ UNCHANGED <<pc, ret, exc, call, getpathVars>>

\* The block deletes a key of the mapping.
BlockDelete ==
    /\ pc = "push_block"
    /\ locals.steps < MaxBlockSteps
    /\ \E k \in DOMAIN heap[1][2] :
          heap' = <<PyDict([j \in DOMAIN heap[1][2] \ {k} |-> heap[1][2][j]])>>
    /\ locals' = [locals EXCEPT !.steps = @ + 1]
    /\ UNCHANGED <<pc, ret, exc, call, getpathVars>>

\* The block ends: the generator resumes after the yield and restores.
BlockEnds ==
    /\ pc = "push_block"
    /\ heap' = <<PyDict(Restore(heap[1][2], locals.backup))>>
    /\ locals' = [locals EXCEPT !.left = heap[1][2]]
    /\ pc' = "push_exited"
    /\ exc' = ""
    /\ UNCHANGED <<ret, call, getpathVars>>

\* The block raises: the exception is thrown into the generator at the
\* yield, which no try statement encloses, so the generator ends there and
\* the exception goes on to the caller.
BlockRaises ==
    /\ pc = "push_block"
    /\ locals' = [locals EXCEPT !.left = heap[1][2]]
    /\ pc' = "push_exited"
    /\ exc' = "Exception"
    /\ UNCHANGED <<ret, call, heap, getpathVars>>

(***************************************************************************)
(* recursive_primitive, find_key_in_dict, key_in_dict                      *)
(***************************************************************************)
CallRecursivePrimitive ==
    /\ pc = "idle"
    /\ \E i \in PrimitiveInputs :
          LET r == recursive_primitive(i)
          IN  /\ call' = [fn |-> "recursive_primitive", i |-> i]
              /\ ret' = IF IsOk(r) THEN r[2] ELSE None
              /\ exc' = IF IsOk(r) THEN "" ELSE r[2]
    /\ pc' = "primitive_done"
    /\ UNCHANGED <<heap, locals, getpathVars>>

\* list(find_key_in_dict(node, key))
CallFindKeyInDict ==
    /\ pc = "idle"
    /\ \E node \in Nodes, key \in FindKeys :
          /\ call' = [fn |-> "find_key_in_dict", node |-> node, key |-> key]
          /\ ret' = PyList(find_key_in_dict(node, key))
    /\ pc' = "find_done"
    /\ UNCHANGED <<exc, heap, locals, getpathVars>>

CallKeyInDict ==
    /\ pc = "idle"
    /\ \E node \in Nodes, key \in FindKeys :
          /\ call' = [fn |-> "key_in_dict", node |-> node, key |-> key]
          /\ ret' = PyBool(key_in_dict(node, key))
    /\ pc' = "key_in_dict_done"
    /\ UNCHANGED <<exc, heap, locals, getpathVars>>

Next ==
    \/ CallGetpath
    \/ GetpathIterate
    \/ GetpathReturn
    \/ CallGetpathPreSplit
    \/ CallWhitelistDict
    \/ WhitelistCopy
    \/ WhitelistField
    \/ WhitelistReturn
    \/ CallSafeMaskValues
    \/ SafeMaskCopy
    \/ SafeMaskReturn
    \/ CallPushKeys
    \/ BlockAssign
    \/ BlockDelete
    \/ BlockEnds
    \/ BlockRaises
    \/ CallRecursivePrimitive
    \/ CallFindKeyInDict
    \/ CallKeyInDict

Spec == Init /\ [][Next]_vars

(***************************************************************************)
(* Properties of getpath.                                                  *)
(***************************************************************************)
GetpathDone == pc = "getpath_done" /\ call.fn = "getpath"

\* C1: when a token fails to resolve, getpath returns the default itself: the
\* tokens after the failing one are not applied to the default.
C1_FailureReturnsDefault == GetpathDone /\ trace.failed => ret = call.D

\* A path the parser is documented for: a string, or a sequence whose tokens
\* are strings, integers, None or lists.
RegularPath(p) ==
    \/ Kind(p) = "str"
    \/ /\ Kind(p) \in {"list", "tuple"}
       /\ \A i \in 1..Len(p[2]) : Kind(p[2][i]) \in {"str", "int", "none", "list"}

\* C3 (as claimed): no call of getpath raises, whatever the path.
C3_NeverRaises == call.fn = "getpath" => pc # "raised"

\* C3 (amended): no call of getpath raises when the path is a string or a
\* sequence of string, integer, None or list tokens.
C3_NeverRaisesOnRegularPath ==
    call.fn = "getpath" /\ RegularPath(call.path) => pc # "raised"

C3_Witness ==
    /\ GetpathDone
    /\ RegularPath(call.path)
    /\ {"ValueError", "TypeError"} \subseteq trace.caught

\* C4 (as claimed): a delimited string and its pre-split sequence give the
\* same result on every structure and default.
C4_StringAndSequenceAgree == GetpathDone /\ prev.set => ret = prev.ret

\* C4 (amended): they give the same result when no numeric token meets a
\* mapping or object that has that number as a key, as an integer or as a
\* digit string.
C4_AgreeWithoutNumericKeys ==
    GetpathDone /\ prev.set /\ ~trace.ambig /\ ~prev.ambig => ret = prev.ret

C4_Witness ==
    /\ GetpathDone /\ prev.set /\ ~trace.ambig /\ ~prev.ambig
    /\ ~trace.failed
    /\ Kind(prev.path) = "str" /\ "[" \in {prev.path[2][i] : i \in 1..Len(prev.path[2])}
    /\ \E i \in 1..Len(call.toks) : Kind(call.toks[i]) = "int"
    /\ ret # None

\* Direct traversal by hand: S[t] on a mapping, integer indexing on a
\* sequence, attribute access on a plain object; "unresolved" otherwise or
\* when a step gives None.
ManualStep(o, t) ==
    CASE Kind(o) = "dict" /\ Hashable(t) /\ t \in DOMAIN o[2] -> Ok(o[2][t])
      [] Kind(o) \in {"list", "tuple"} /\ Kind(t) = "int"
            /\ t[2] >= 0 /\ t[2] < Len(o[2]) -> Ok(o[2][t[2] + 1])
      [] Kind(o) = "bunch" /\ Kind(t) = "str" /\ t \in DOMAIN o[2] -> Ok(o[2][t])
      [] OTHER -> Raise("unresolved")

RECURSIVE Manual(_, _)
Manual(o, toks) ==
    IF toks = <<>> THEN Ok(o)
    ELSE LET r == ManualStep(o, Head(toks))
         IN  IF IsOk(r) /\ r[2] # None THEN Manual(r[2], Tail(toks)) ELSE Raise("unresolved")

\* C5: when every token of a sequence path resolves by hand to a non-None
\* value, getpath returns the value reached by hand, whatever the keys' names.
C5_ResolvedEqualsManual ==
    GetpathDone /\ call.form = "seq" /\ IsOk(Manual(call.S, call.toks))
        => ret = Manual(call.S, call.toks)[2]

\* C10: once a token has resolved to None the loop is left, no later token is
\* applied, and None is returned whatever the default.
C10_NullShortCircuit ==
    call.fn = "getpath" /\ trace.nulled =>
        /\ pc \in {"getpath_return", "getpath_done"}
        /\ obj = None
        /\ pc = "getpath_done" => ret = None

C10_Witness ==
    GetpathDone /\ trace.nulled /\ call.D # None /\ keys # <<>> /\ ret = None

(***************************************************************************)
(* Properties of push_keys.                                                *)
(***************************************************************************)
\* C2: after the block is left, normally or by an exception, every overlaid
\* key that existed before entry holds its pre-entry value, every overlaid
\* key that did not exist is absent, and every other key is as the block
\* left it.
C2_RestoredOnEveryExit ==
    pc = "push_exited" =>
        LET m == heap[1][2]
            before == call.mapping
        IN  /\ \A k \in DOMAIN call.kwargs :
                  IF k \in DOMAIN before
                  THEN k \in DOMAIN m /\ m[k] = before[k]
                  ELSE k \notin DOMAIN m
            /\ \A k \in (DOMAIN m \cup DOMAIN locals.left) \ DOMAIN call.kwargs :
                  /\ k \in DOMAIN m
                  /\ k \in DOMAIN locals.left
                  /\ m[k] = locals.left[k]

(***************************************************************************)
(* Properties of whitelist_dict.                                           *)
(***************************************************************************)
\* C9: the returned mapping has exactly the keys of data; a value is
\* "REDACTED" when its key is not in white_list and the value is truthy, and
\* is the value of data otherwise; with copy_data the caller's mapping is left
\* as it was and another mapping is returned, without it the caller's own
\* mapping is returned, updated in place.
C9_WhitelistDict ==
    pc = "whitelist_done" =>
        LET out == heap[ret[2]][2]
            data == call.data
        IN  /\ DOMAIN out = DOMAIN data
            /\ \A k \in DOMAIN data :
                  out[k] = IF k \notin call.white_list /\ Truthy(data[k])
                           THEN REDACTED ELSE data[k]
            /\ call.copy_data => ret # Ref(1) /\ heap[1] = PyDict(data)
            /\ ~call.copy_data => ret = Ref(1)

C9_Witness ==
    /\ pc = "whitelist_done"
    /\ ~call.copy_data
    /\ \E k \in DOMAIN call.data : call.data[k] # REDACTED /\ heap[1][2][k] = REDACTED
    /\ \E k \in DOMAIN call.data : k \notin call.white_list /\ heap[1][2][k] = call.data[k]

(***************************************************************************)
(* Properties of safe_mask_values.                                         *)
(***************************************************************************)
\* No mapping of the input has a truthy value under one of pii_keys.
NothingToMask ==
    \A a \in Refs(call.heap, call.data) :
        Kind(call.heap[a]) = "dict" =>
            \A k \in DOMAIN call.heap[a][2] :
                ~(k \in call.pii_keys /\ TruthyCell(call.heap, call.heap[a][2][k]))

\* C6: after safe_mask_values the input's containers hold what they held
\* before the call, no container of the result is a container of the input,
\* and the result equals the input when there was nothing to mask.
C6_SafeMaskLeavesInput ==
    pc = "mask_done" =>
        /\ \A a \in DOMAIN call.heap : heap[a] = call.heap[a]
        /\ Value(heap, call.data) = Value(call.heap, call.data)
        /\ Refs(heap, ret) \cap Refs(call.heap, call.data) = {}
        /\ NothingToMask => Value(heap, ret) = Value(call.heap, call.data)

C6_Witness ==
    /\ pc = "mask_done"
    /\ NothingToMask
    /\ call.pii_keys # {}
    /\ \E a \in Refs(call.heap, call.data) :
          Kind(call.heap[a]) = "dict" /\ DOMAIN call.heap[a][2] \cap call.pii_keys # {}
    /\ Cardinality(Refs(heap, ret)) > 1

(***************************************************************************)
(* Properties of find_key_in_dict and key_in_dict.                         *)
(***************************************************************************)
\* The nodes reachable from a node through lists and mappings.
RECURSIVE Reachable(_)
Reachable(node) ==
    {node} \cup
    (CASE Kind(node) = "list" -> UNION { Reachable(node[2][i]) : i \in 1..Len(node[2]) }
       [] Kind(node) = "dict" -> UNION { Reachable(node[2][k]) : k \in DOMAIN node[2] }
       [] OTHER -> {})

Occurs(node, key) ==
    \E d \in Reachable(node) : Kind(d) = "dict" /\ key \in DOMAIN d[2]

\* C7: key_in_dict is true exactly when find_key_in_dict yields an element,
\* which is exactly when key is a key of a mapping reachable through lists
\* and mappings.
C7_KeyInDict ==
    /\ pc = "key_in_dict_done" =>
          /\ ret = PyBool(find_key_in_dict(call.node, call.key) # <<>>)
          /\ ret = PyBool(Occurs(call.node, call.key))
    /\ pc = "find_done" => (ret[2] # <<>>) = Occurs(call.node, call.key)

C7_Witness ==
    /\ pc = "key_in_dict_done"
    /\ ret = PyBool(TRUE)
    /\ Kind(call.node) = "list"
    /\ \A d \in Reachable(call.node) :
          Kind(d) = "dict" /\ call.key \in DOMAIN d[2] =>
              \E l \in Reachable(call.node) \ {call.node} :
                  Kind(l) = "list" /\ d \in Reachable(l)

(***************************************************************************)
(* Properties of recursive_primitive.                                      *)
(***************************************************************************)
\* C8: when recursive_primitive(v) succeeds, recursive_primitive of its
\* result succeeds too and gives the same result.
C8_Idempotent ==
    pc = "primitive_done" /\ exc = "" => recursive_primitive(ret) = Ok(ret)

C8_Witness ==
    /\ pc = "primitive_done" /\ exc = ""
    /\ ret # call.i
    /\ Kind(call.i) = "dict"
    /\ \E k \in DOMAIN call.i[2] : Kind(call.i[2][k]) = "tuple" /\ call.i[2][k][2] # <<>>

====
